---- MODULE Spec2Model ----
(***************************************************************************)
(* A model of the VibeMatch gallery's persistence layer                    *)
(* (src/services/storageService.ts) and of the components that call it.    *)
(*                                                                         *)
(* Every gateway function is an async function: it awaits openDB(), then   *)
(* creates one IndexedDB transaction, issues requests on it and settles    *)
(* its promise from a request or transaction event handler.  A call is     *)
(* therefore modelled as a small process with the positions                *)
(*    idle -> opening -> opened -> tx -> finished -> idle                  *)
(* and the transaction as IndexedDB defines it: requests run one at a time *)
(* against the transaction's own view of its stores, the view replaces the *)
(* stored records when the transaction commits and is dropped when it      *)
(* aborts.                                                                 *)
(***************************************************************************)
EXTENDS Integers, Sequences, FiniteSets, TLC

\* ------------------------------------------------------------ bounds
MaxGalleries == 2
MaxImages == 2
MaxTime == 2
MaxCalls == 2
MaxOpenRequests == 2

GalleryIds == 1..MaxGalleries
ImageIds == 1..MaxImages
Times == 1..MaxTime
Slots == 1..MaxCalls
Names == {"", "a"}

\* ------------------------------------------------------------ records
GalleryRec == [id : GalleryIds, name : Names, createdAt : Times, updatedAt : Times]
GalleryImageRec == [id : ImageIds, galleryId : GalleryIds, timestamp : Times]

IMAGES_STORE == "images"
GALLERIES_STORE == "galleries"

VARIABLES
    schema,         \* the database: its version, object stores and indexes
    dbInstance,     \* the cached connection: "null" or "db"
    openRequests,   \* how many times indexedDB.open was requested
    galleries,      \* the committed records of the galleries store
    images,         \* the committed records of the images store
    calls,          \* the gateway calls in flight, one per slot
    txQueue,        \* the slots of the unfinished transactions, oldest first
    now,            \* what Date.now() returns
    selectedGallery, \* App's state: <<>> (the overview) or <<gallery>> (its view)
    upload,         \* the activation of GalleryView.handleFileUpload
    titleSave,      \* the activation of GalleryView.handleSaveTitle
    aiFlow,         \* the activation of handleEdit or handleGenerate in a modal
    view,           \* the state of the mounted GalleryView
    overview        \* the activation of GalleryOverview.loadGalleries

vars == <<schema, dbInstance, openRequests, galleries, images, calls, txQueue, now,
          selectedGallery, upload, titleSave, aiFlow, view, overview>>

appVars == <<selectedGallery, upload, titleSave, aiFlow, view, overview>>

Range(seq) == {seq[i] : i \in DOMAIN seq}

\* No GalleryView is mounted.  load: where the effect that loads the images
\* is; images and uploadProgress: the component's state; handlers: the
\* handlers of this view that are running in a modal or in the upload;
\* awaiting: the calls a handler of this view awaits, with what it does next.
NoView == [load |-> "unmounted", images |-> <<>>, uploadProgress |-> "null",
           handlers |-> {}, awaiting |-> {}]

\* useState initial values of a GalleryView that mounts.
MountedView == [NoView EXCEPT !.load = "mounted"]

\* No GalleryOverview is mounted.  pc: where loadGalleries is; allGalleries and
\* imageCount: what it has awaited so far; galleriesWithMeta: the cards it
\* hands to setGalleries.
NoOverview == [pc |-> "unmounted", allGalleries |-> <<>>, imageCount |-> 0,
               galleriesWithMeta |-> <<>>]

\* A GalleryOverview that mounts: its effect has not run yet.
MountedOverview == [NoOverview EXCEPT !.pc = "mounted"]

\* No handler of a modal is running.
NoAiFlow == [pc |-> "idle", kind |-> "none", galleryId |-> 0, image |-> <<>>, result |-> 0,
             error |-> FALSE]

\* No upload handler is running.
NoUpload == [pc |-> "idle", galleryId |-> 0, total |-> 0, files |-> 0, newGalleryImages |-> <<>>]

\* ------------------------------------------------------------ the gateway's functions
WriteOps == {"createGallery", "updateGallery", "saveImage", "saveImages",
             "deleteImage", "deleteGallery", "clearAllImages"}
ReadOps == {"loadAllGalleries", "loadGallery", "loadGalleryImages", "loadAllImages",
            "getGalleryImageCount", "getGalleryCoverImage"}

\* Faulty variant: deleteGallery's transaction names the galleries store only.
ScopeGalleriesOnly(op) ==
    IF op \in {"createGallery", "updateGallery", "loadAllGalleries", "loadGallery",
               "deleteGallery"}
    THEN {GALLERIES_STORE} ELSE {IMAGES_STORE}

\* The stores each function names when it creates its transaction.
Scope(op) ==
    CASE op \in {"createGallery", "updateGallery", "loadAllGalleries", "loadGallery"}
            -> {GALLERIES_STORE}
      [] op = "deleteGallery" -> {GALLERIES_STORE, IMAGES_STORE}
      [] OTHER -> {IMAGES_STORE}

\* The transaction mode each function asks for.
Mode(op) == IF op \in WriteOps THEN "readwrite" ELSE "readonly"

\* Faulty variant: deleteGallery resolves from a request's onsuccess like the
\* single-record functions.
ResolvesOnCompleteOnlySaveImages(op) == op = "saveImages"

\* transaction.oncomplete resolves the promise (deleteGallery, saveImages);
\* every other function resolves from its request's onsuccess.
ResolvesOnComplete(op) == op \in {"deleteGallery", "saveImages"}

Idle == [op |-> "none", arg |-> <<>>, pc |-> "idle", promise |-> "none",
         tx |-> "none", reqs |-> <<>>, wg |-> {}, wi |-> {}, result |-> <<>>]

\* ------------------------------------------------------------ the schema
DB_VERSION == 2

\* A database that was never opened: version 0, no object store.
NoDatabase == [version |-> 0, stores |-> {}, indexes |-> {}, error |-> FALSE]

\* db.createObjectStore(name) and store.createIndex(index): each throws a
\* ConstraintError when the name is taken, which aborts the upgrade.
CreateObjectStore(db, name) ==
    IF name \in db.stores THEN [db EXCEPT !.error = TRUE]
    ELSE [db EXCEPT !.stores = @ \cup {name}]

CreateIndex(db, name, index) ==
    IF <<name, index>> \in db.indexes \/ name \notin db.stores
    THEN [db EXCEPT !.error = TRUE]
    ELSE [db EXCEPT !.indexes = @ \cup {<<name, index>>}]

\* Faulty variant: the upgrade creates the galleryId index without looking.
UpgradeImagesUnguarded(db) ==
    IF IMAGES_STORE \notin db.stores
    THEN CreateIndex(CreateIndex(CreateObjectStore(db, IMAGES_STORE),
                                 IMAGES_STORE, "timestamp"),
                     IMAGES_STORE, "galleryId")
    ELSE CreateIndex(db, IMAGES_STORE, "galleryId")

\* request.onupgradeneeded, the images store: created with both indexes, or
\* given the galleryId index it lacks.
UpgradeImages(db) ==
    IF IMAGES_STORE \notin db.stores
    THEN CreateIndex(CreateIndex(CreateObjectStore(db, IMAGES_STORE),
                                 IMAGES_STORE, "timestamp"),
                     IMAGES_STORE, "galleryId")
    ELSE IF <<IMAGES_STORE, "galleryId">> \notin db.indexes
         THEN CreateIndex(db, IMAGES_STORE, "galleryId")
         ELSE db

\* request.onupgradeneeded, the galleries store.
UpgradeGalleries(db) ==
    IF GALLERIES_STORE \notin db.stores
    THEN CreateIndex(CreateObjectStore(db, GALLERIES_STORE),
                     GALLERIES_STORE, "createdAt")
    ELSE db

\* request.onupgradeneeded as a whole.
OnUpgradeNeeded(db) == UpgradeGalleries(UpgradeImages(db))

\* indexedDB.open(DB_NAME, DB_VERSION) on a database: the upgrade runs when the
\* stored version is lower, and the database then has the requested version.
Opened(db) ==
    IF db.version < DB_VERSION
    THEN [OnUpgradeNeeded(db) EXCEPT !.version = DB_VERSION]
    ELSE db

\* ------------------------------------------------------------ object stores
\* Faulty variant: a put that leaves a record stored under the key as it is.
PutKeepingOld(store, rec) ==
    IF \E r \in store : r.id = rec.id THEN store ELSE store \cup {rec}

\* store.put(record): insert, or overwrite the record with the same key.
Put(store, rec) == {r \in store : r.id # rec.id} \cup {rec}
\* store.delete(key): absent keys are not an error.
Delete(store, key) == {r \in store : r.id # key}
\* store.get(key): the record, or nothing.
Get(store, key) == {r \in store : r.id = key}

\* ------------------------------------------------------------ cursors and sorting
\* Faulty variant: a cursor over the whole index, without the key range.
NextInIndex(store, galleryId, last) ==
    LET rest == {r \in store : r.id > last}
    IN  {r \in rest : \A q \in rest : r.id <= q.id}

\* The record a cursor over the images' 'galleryId' index, opened with
\* IDBKeyRange.only(galleryId), stands on after the key `last`: index entries with
\* one key are ordered by primary key.
NextInRange(store, galleryId, last) ==
    LET rest == {r \in store : r.galleryId = galleryId /\ r.id > last}
    IN  {r \in rest : \A q \in rest : r.id <= q.id}

\* All records such a cursor visits, in the order it visits them.
RECURSIVE CursorOnly(_, _, _)
CursorOnly(store, galleryId, last) ==
    LET nxt == NextInRange(store, galleryId, last)
    IN  IF nxt = {} THEN <<>>
        ELSE LET r == CHOOSE x \in nxt : TRUE
             IN  <<r>> \o CursorOnly(store, galleryId, r.id)

\* Faulty variant: the comparator with its operands swapped.
CompareImagesAscending(a, b) == a.timestamp - b.timestamp

\* The comparator handed to images.sort: a negative value puts a first.
CompareImages(a, b) == b.timestamp - a.timestamp

\* Array.prototype.sort is stable: an element goes behind every element that
\* does not compare greater than it.
RECURSIVE InsertSorted(_, _)
InsertSorted(sorted, x) ==
    IF sorted = <<>> THEN <<x>>
    ELSE IF CompareImages(Head(sorted), x) <= 0
         THEN <<Head(sorted)>> \o InsertSorted(Tail(sorted), x)
         ELSE <<x>> \o sorted

RECURSIVE SortImages(_, _)
SortImages(sorted, rest) ==
    IF rest = <<>> THEN sorted
    ELSE SortImages(InsertSorted(sorted, Head(rest)), Tail(rest))

\* What loadGalleryImages resolves with when its transaction reads `store`.
LoadGalleryImagesOf(store, galleryId) ==
    SortImages(<<>>, CursorOnly(store, galleryId, 0))

\* Faulty variant: index.count() without the key range.
GalleryImageCountUnscoped(store, galleryId) == Cardinality(store)

\* What getGalleryImageCount resolves with: index.count(IDBKeyRange.only(galleryId)).
GalleryImageCountOf(store, galleryId) ==
    Cardinality({r \in store : r.galleryId = galleryId})

\* A cursor opened with (null, 'prev') over an index on `field`: greatest key
\* first, and among equal keys the greatest primary key first.
RECURSIVE CursorPrevByCreatedAt(_)
CursorPrevByCreatedAt(store) ==
    IF store = {} THEN <<>>
    ELSE LET r == CHOOSE x \in store : \A y \in store :
                      \/ x.createdAt > y.createdAt
                      \/ (x.createdAt = y.createdAt /\ x.id >= y.id)
         IN  <<r>> \o CursorPrevByCreatedAt(store \ {r})

RECURSIVE CursorPrevByTimestamp(_)
CursorPrevByTimestamp(store) ==
    IF store = {} THEN <<>>
    ELSE LET r == CHOOSE x \in store : \A y \in store :
                      \/ x.timestamp > y.timestamp
                      \/ (x.timestamp = y.timestamp /\ x.id >= y.id)
         IN  <<r>> \o CursorPrevByTimestamp(store \ {r})

\* Faulty variant: the cursor opened without 'prev': smallest key first.
RECURSIVE CursorNextByCreatedAt(_)
CursorNextByCreatedAt(store) ==
    IF store = {} THEN <<>>
    ELSE LET r == CHOOSE x \in store : \A y \in store :
                      \/ x.createdAt < y.createdAt
                      \/ (x.createdAt = y.createdAt /\ x.id <= y.id)
         IN  <<r>> \o CursorNextByCreatedAt(store \ {r})

\* What loadAllGalleries resolves with.
LoadAllGalleriesOf(store) == CursorPrevByCreatedAt(store)

\* Faulty variant: the cover taken from the unscoped, deprecated all-images read.
GalleryCoverImageUnscoped(store, galleryId) ==
    LET imgs == CursorPrevByTimestamp(store)
    IN  IF Len(imgs) > 0 THEN <<imgs[1]>> ELSE <<>>

\* What getGalleryCoverImage resolves with: the head of the loaded list, or null
\* (the empty sequence here, a one-element sequence otherwise).
GalleryCoverImageOf(store, galleryId) ==
    LET imgs == LoadGalleryImagesOf(store, galleryId)
    IN  IF Len(imgs) > 0 THEN <<imgs[1]>> ELSE <<>>

\* What loadGallery resolves with: request.result || null.
LoadGalleryOf(store, galleryId) ==
    LET got == Get(store, galleryId)
    IN  IF got = {} THEN <<>> ELSE <<CHOOSE r \in got : TRUE>>

\* ------------------------------------------------------------ what callers pass
MaxBatch == 2
\* The lists saveImages is called with: the images of one upload, all of them
\* built with the one gallery's id.
Batches ==
    {b \in UNION {[1..n -> GalleryImageRec] : n \in 0..MaxBatch} :
        \A i, j \in DOMAIN b : b[i].galleryId = b[j].galleryId}

ArgsOf(op) ==
    CASE op = "createGallery" -> {<<n>> : n \in Names}
      [] op = "updateGallery" -> {<<g>> : g \in GalleryRec}
      [] op \in {"loadGallery", "deleteGallery", "loadGalleryImages",
                 "getGalleryImageCount", "getGalleryCoverImage"}
            -> {<<g>> : g \in GalleryIds}
      [] op = "saveImage" -> {<<i>> : i \in GalleryImageRec}
      [] op = "saveImages" -> {<<b>> : b \in Batches}
      [] op = "deleteImage" -> {<<i>> : i \in ImageIds}
      [] OTHER -> {<<>>}

\* ------------------------------------------------------------ openDB
Init ==
    /\ schema = NoDatabase
    /\ dbInstance = "null"
    /\ openRequests = 0
    /\ galleries = {}
    /\ images = {}
    /\ calls = [c \in Slots |-> Idle]
    /\ txQueue = <<>>
    /\ now = 1
    /\ selectedGallery = <<>>
    /\ upload = NoUpload
    /\ titleSave = "idle"
    /\ aiFlow = NoAiFlow
    /\ view = NoView
    /\ overview = MountedOverview

\* A function that has its connection runs on, in the same task, to the end of
\* its promise executor: nothing else happens before its transaction is created.
\* Nor before a handler of the view that awaited a promise which is settled
\* has gone on.
Settled(c) == calls[c].promise \in {"resolved", "rejected"}

ContinuationReady ==
    \/ upload.pc = "saving" /\ Settled(MaxCalls)
    \/ view.load = "awaiting" /\ Settled(MaxCalls - 1)
    \/ \E a \in view.awaiting : Settled(a.slot)
    \/ overview.pc \in {"galleries", "count", "cover"} /\ Settled(MaxCalls - 1)

NoMicrotask ==
    /\ \A d \in Slots : calls[d].pc # "opened"
    /\ ~ContinuationReady

\* A gateway function is called: it runs up to `await openDB()`.  openDB returns
\* the cached connection when there is one and requests a new one otherwise.
Issue(c, op, arg) ==
    /\ calls[c].pc \in {"idle", "finished"}
    /\ IF dbInstance # "null"
       THEN /\ calls' = [calls EXCEPT ![c] =
                   [Idle EXCEPT !.op = op, !.arg = arg, !.pc = "opened",
                                !.promise = "pending"]]
            /\ UNCHANGED openRequests
       ELSE /\ openRequests < MaxOpenRequests
            /\ calls' = [calls EXCEPT ![c] =
                   [Idle EXCEPT !.op = op, !.arg = arg, !.pc = "opening",
                                !.promise = "pending"]]
            /\ openRequests' = openRequests + 1
    /\ UNCHANGED <<schema, dbInstance, galleries, images, txQueue, now>>

\* A call from an event handler or an effect: no continuation is waiting.
Call(c, op, arg) ==
    /\ NoMicrotask
    /\ Issue(c, op, arg)

\* request.onsuccess of the open request: the connection is cached.
OpenSuccess(c) ==
    /\ NoMicrotask
    /\ calls[c].pc = "opening"
    /\ schema.version <= DB_VERSION
    /\ ~Opened(schema).error
    /\ schema' = Opened(schema)
    /\ dbInstance' = "db"
    /\ calls' = [calls EXCEPT ![c].pc = "opened"]
    /\ UNCHANGED <<openRequests, galleries, images, txQueue, now, appVars>>

\* Faulty variant: the error handler caches the request's result like the
\* success handler.
OpenErrorCaches(c) ==
    /\ NoMicrotask
    /\ calls[c].pc = "opening"
    /\ dbInstance' = "db"
    /\ calls' = [calls EXCEPT ![c].pc = "finished", ![c].promise = "rejected"]
    /\ UNCHANGED <<schema, openRequests, galleries, images, txQueue, now, appVars>>

\* request.onerror of the open request: the function's promise rejects.
OpenError(c) ==
    /\ NoMicrotask
    /\ calls[c].pc = "opening"
    /\ calls' = [calls EXCEPT ![c].pc = "finished", ![c].promise = "rejected"]
    /\ UNCHANGED <<schema, dbInstance, openRequests, galleries, images, txQueue, now, appVars>>

\* ------------------------------------------------------------ transactions
\* IndexedDB runs two transactions at the same time only when their scopes do not
\* overlap or both are read-only; otherwise the one created first runs first.
Conflict(op1, op2) ==
    /\ Scope(op1) \cap Scope(op2) # {}
    /\ "readwrite" \in {Mode(op1), Mode(op2)}

Runnable(c) ==
    /\ NoMicrotask
    /\ calls[c].pc = "tx"
    /\ \E i \in DOMAIN txQueue :
          /\ txQueue[i] = c
          /\ \A j \in 1..(i - 1) : ~Conflict(calls[txQueue[j]].op, calls[c].op)

Dequeue(c) == SelectSeq(txQueue, LAMBDA d : d # c)

\* What the transaction of a call sees of a store: the stored records until its
\* first request has run, its own view from then on.
ViewOf(call, own, stored) == IF call.tx = "created" THEN stored ELSE own

\* db.transaction(...) and the requests the function issues on it before it
\* returns to the event loop.
BeginTx(c, arg, reqs) ==
    /\ calls' = [calls EXCEPT ![c] =
          [calls[c] EXCEPT !.pc = "tx", !.tx = "created", !.arg = arg, !.reqs = reqs]]
    /\ txQueue' = Append(txQueue, c)

createGallery(c) ==
    /\ calls[c].op = "createGallery"
    /\ calls[c].pc = "opened"
    /\ \E id \in GalleryIds, t \in {now, now + 1} \cap Times :
          LET gallery == [id |-> id, name |-> calls[c].arg[1],
                          createdAt |-> now, updatedAt |-> t]
          IN  /\ BeginTx(c, <<gallery>>, << <<"put", GALLERIES_STORE, gallery>> >>)
              /\ now' = t
    /\ UNCHANGED <<schema, dbInstance, openRequests, galleries, images, appVars>>

\* Faulty variant: the caller's updatedAt is stored as it came.
updateGalleryUnstamped(c) ==
    /\ calls[c].op = "updateGallery"
    /\ calls[c].pc = "opened"
    /\ BeginTx(c, calls[c].arg, << <<"put", GALLERIES_STORE, calls[c].arg[1]>> >>)
    /\ UNCHANGED <<schema, dbInstance, openRequests, galleries, images, now, appVars>>

updateGallery(c) ==
    /\ calls[c].op = "updateGallery"
    /\ calls[c].pc = "opened"
    /\ LET gallery == [calls[c].arg[1] EXCEPT !.updatedAt = now]
       IN  BeginTx(c, <<gallery>>, << <<"put", GALLERIES_STORE, gallery>> >>)
    /\ UNCHANGED <<schema, dbInstance, openRequests, galleries, images, now, appVars>>

deleteGallery(c) ==
    /\ calls[c].op = "deleteGallery"
    /\ calls[c].pc = "opened"
    /\ BeginTx(c, calls[c].arg,
               << <<"delete", GALLERIES_STORE, calls[c].arg[1]>>,
                  <<"cursor", calls[c].arg[1], 0>> >>)
    /\ UNCHANGED <<schema, dbInstance, openRequests, galleries, images, now, appVars>>

saveImage(c) ==
    /\ calls[c].op = "saveImage"
    /\ calls[c].pc = "opened"
    /\ BeginTx(c, calls[c].arg, << <<"put", IMAGES_STORE, calls[c].arg[1]>> >>)
    /\ UNCHANGED <<schema, dbInstance, openRequests, galleries, images, now, appVars>>

saveImages(c) ==
    /\ calls[c].op = "saveImages"
    /\ calls[c].pc = "opened"
    /\ LET batch == calls[c].arg[1]
       IN  BeginTx(c, calls[c].arg,
                   [k \in 1..Len(batch) |-> <<"put", IMAGES_STORE, batch[k]>>])
    /\ UNCHANGED <<schema, dbInstance, openRequests, galleries, images, now, appVars>>

deleteImage(c) ==
    /\ calls[c].op = "deleteImage"
    /\ calls[c].pc = "opened"
    /\ BeginTx(c, calls[c].arg, << <<"delete", IMAGES_STORE, calls[c].arg[1]>> >>)
    /\ UNCHANGED <<schema, dbInstance, openRequests, galleries, images, now, appVars>>

clearAllImages(c) ==
    /\ calls[c].op = "clearAllImages"
    /\ calls[c].pc = "opened"
    /\ BeginTx(c, calls[c].arg, << <<"clear", IMAGES_STORE>> >>)
    /\ UNCHANGED <<schema, dbInstance, openRequests, galleries, images, now, appVars>>

\* The read functions: one request (a get, a count, or a cursor that is drained).
Read(c) ==
    /\ calls[c].op \in ReadOps
    /\ calls[c].pc = "opened"
    /\ BeginTx(c, calls[c].arg, << <<"read">> >>)
    /\ UNCHANGED <<schema, dbInstance, openRequests, galleries, images, now, appVars>>

\* What a read function resolves with, given the transaction's view.
ReadResult(op, arg, wg, wi) ==
    CASE op = "loadAllGalleries" -> LoadAllGalleriesOf(wg)
      [] op = "loadGallery" -> LoadGalleryOf(wg, arg[1])
      [] op = "loadGalleryImages" -> LoadGalleryImagesOf(wi, arg[1])
      [] op = "loadAllImages" -> CursorPrevByTimestamp(wi)
      [] op = "getGalleryImageCount" -> <<GalleryImageCountOf(wi, arg[1])>>
      [] op = "getGalleryCoverImage" -> GalleryCoverImageOf(wi, arg[1])

\* ------------------------------------------------------------ requests and events
\* The transaction's view of a store after the request has run.
ApplyRequest(req, store, name) ==
    IF req[1] = "put" /\ req[2] = name THEN Put(store, req[3])
    ELSE IF req[1] = "delete" /\ req[2] = name THEN Delete(store, req[3])
    ELSE IF req[1] = "clear" /\ req[2] = name THEN {}
    ELSE store

\* Faulty variant: the cursor handler without cursor.delete().
FollowUpsWithoutDelete(req, wi) ==
    IF req[1] # "cursor" THEN <<>>
    ELSE LET nxt == NextInRange(wi, req[2], req[3])
         IN  IF nxt = {} THEN <<>>
             ELSE LET r == CHOOSE x \in nxt : TRUE
                  IN  << <<"cursor", req[2], r.id>> >>

\* The requests a success handler issues.  Only deleteGallery's cursor handler
\* issues any: cursor.delete() and cursor.continue() while the cursor stands on a
\* record, nothing once it is null.
FollowUps(req, wi) ==
    IF req[1] # "cursor" THEN <<>>
    ELSE LET nxt == NextInRange(wi, req[2], req[3])
         IN  IF nxt = {} THEN <<>>
             ELSE LET r == CHOOSE x \in nxt : TRUE
                  IN  << <<"delete", IMAGES_STORE, r.id>>, <<"cursor", req[2], r.id>> >>

\* The request at the head of the transaction's queue succeeds and its success
\* event is dispatched.
RequestSuccess(c) ==
    LET call == calls[c]
        req == Head(call.reqs)
        wg == ViewOf(call, call.wg, galleries)
        wi == ViewOf(call, call.wi, images)
    IN  /\ Runnable(c)
        /\ call.reqs # <<>>
        /\ IF req[1] = "read"
           THEN /\ calls' = [calls EXCEPT ![c] =
                      [call EXCEPT !.pc = "finished", !.tx = "committed",
                                   !.promise = "resolved", !.reqs = <<>>,
                                   !.result = ReadResult(call.op, call.arg, wg, wi),
                                   !.wg = {}, !.wi = {}]]
                /\ txQueue' = Dequeue(c)
           ELSE /\ calls' = [calls EXCEPT ![c] =
                      [call EXCEPT
                          !.tx = "active",
                          !.wg = IF GALLERIES_STORE \in Scope(call.op)
                                 THEN ApplyRequest(req, wg, GALLERIES_STORE) ELSE {},
                          !.wi = IF IMAGES_STORE \in Scope(call.op)
                                 THEN ApplyRequest(req, wi, IMAGES_STORE) ELSE {},
                          !.reqs = FollowUps(req, wi) \o Tail(call.reqs),
                          !.promise = IF ResolvesOnComplete(call.op) THEN @ ELSE "resolved",
                          !.result = IF call.op = "createGallery" THEN call.arg ELSE <<>>]]
                /\ UNCHANGED txQueue
        /\ UNCHANGED <<schema, dbInstance, openRequests, galleries, images, now, appVars>>

\* The request at the head of the queue fails.  Its error event reaches
\* request.onerror or, bubbling, transaction.onerror: one of the two rejects the
\* promise in every function.  The handlers do not call preventDefault, so the
\* transaction aborts and its view is dropped.
RequestError(c) ==
    LET call == calls[c]
    IN  /\ Runnable(c)
        /\ call.reqs # <<>>
        /\ calls' = [calls EXCEPT ![c] =
               [call EXCEPT !.pc = "finished", !.tx = "aborted", !.reqs = <<>>,
                            !.wg = {}, !.wi = {},
                            !.promise = IF @ = "pending" THEN "rejected" ELSE @]]
        /\ txQueue' = Dequeue(c)
        /\ UNCHANGED <<schema, dbInstance, openRequests, galleries, images, now, appVars>>

\* All requests are done and the transaction commits: its view becomes the
\* stored state and the complete event is dispatched.
Commit(c) ==
    LET call == calls[c]
    IN  /\ Runnable(c)
        /\ call.reqs = <<>>
        /\ galleries' = IF GALLERIES_STORE \in Scope(call.op)
                        THEN ViewOf(call, call.wg, galleries) ELSE galleries
        /\ images' = IF IMAGES_STORE \in Scope(call.op)
                     THEN ViewOf(call, call.wi, images) ELSE images
        /\ calls' = [calls EXCEPT ![c] =
               [call EXCEPT !.pc = "finished", !.tx = "committed",
                            !.wg = {}, !.wi = {},
                            !.promise = IF ResolvesOnComplete(call.op) /\ @ = "pending"
                                        THEN "resolved" ELSE @]]
        /\ txQueue' = Dequeue(c)
        /\ UNCHANGED <<schema, dbInstance, openRequests, now, appVars>>

\* All requests are done but the commit fails (quota, I/O): the transaction
\* aborts.  Only an abort event is dispatched, no error event, and no function
\* sets transaction.onabort.
CommitFail(c) ==
    LET call == calls[c]
    IN  /\ Runnable(c)
        /\ call.reqs = <<>>
        /\ calls' = [calls EXCEPT ![c] =
               [call EXCEPT !.pc = "finished", !.tx = "aborted", !.wg = {}, !.wi = {}]]
        /\ txQueue' = Dequeue(c)
        /\ UNCHANGED <<schema, dbInstance, openRequests, galleries, images, now, appVars>>

\* Time passes.
Tick ==
    /\ NoMicrotask
    /\ now < MaxTime
    /\ now' = now + 1
    /\ UNCHANGED <<schema, dbInstance, openRequests, galleries, images, calls, txQueue, appVars>>

Ops == WriteOps \cup ReadOps

\* A caller that awaits each call before it makes the next one.
NoCallInFlight == \A c \in Slots : calls[c].pc \in {"idle", "finished"}

Invoke ==
    /\ \E c \in Slots, op \in Ops : \E arg \in ArgsOf(op) : Call(c, op, arg)
    /\ UNCHANGED appVars
OpenSucceeds == \E c \in Slots : OpenSuccess(c)
OpenFails == \E c \in Slots : OpenError(c)
CreateGallery == \E c \in Slots : createGallery(c)
UpdateGallery == \E c \in Slots : updateGallery(c)
DeleteGallery == \E c \in Slots : deleteGallery(c)
SaveImage == \E c \in Slots : saveImage(c)
SaveImages == \E c \in Slots : saveImages(c)
DeleteImage == \E c \in Slots : deleteImage(c)
ClearAllImages == \E c \in Slots : clearAllImages(c)
Reads == \E c \in Slots : Read(c)
RequestSucceeds == \E c \in Slots : RequestSuccess(c)
RequestFails == \E c \in Slots : RequestError(c)
Commits == \E c \in Slots : Commit(c)
CommitFails == \E c \in Slots : CommitFail(c)

\* Every function, any number of calls in flight.
Next ==
    \/ Invoke
    \/ OpenSucceeds
    \/ OpenFails
    \/ CreateGallery
    \/ UpdateGallery
    \/ DeleteGallery
    \/ SaveImage
    \/ SaveImages
    \/ DeleteImage
    \/ ClearAllImages
    \/ Reads
    \/ RequestSucceeds
    \/ RequestFails
    \/ Commits
    \/ CommitFails
    \/ Tick

Spec == Init /\ [][Next]_vars

\* ------------------------------------------------------------ the image functions
\* One caller working on the images of its galleries: it creates and deletes
\* galleries and saves, deletes and reads images, one call after the other.
ImageOps == {"createGallery", "deleteGallery", "saveImage", "saveImages", "deleteImage",
             "clearAllImages", "loadGalleryImages", "getGalleryImageCount",
             "getGalleryCoverImage"}

InvokeImageOp ==
    /\ NoCallInFlight
    /\ \E op \in ImageOps :
         \E arg \in {a \in ArgsOf(op) : op = "createGallery" => a[1] = "a"} :
             Call(1, op, arg)
    /\ UNCHANGED appVars

NextImages ==
    \/ InvokeImageOp
    \/ OpenSucceeds
    \/ OpenFails
    \/ CreateGallery
    \/ DeleteGallery
    \/ SaveImage
    \/ SaveImages
    \/ DeleteImage
    \/ ClearAllImages
    \/ Reads
    \/ RequestSucceeds
    \/ RequestFails
    \/ Commits
    \/ CommitFails

SpecImages == Init /\ [][NextImages]_vars

\* ------------------------------------------------------------ the gallery functions
\* One caller working on gallery records, one call after the other.
GalleryOps == {"createGallery", "updateGallery", "deleteGallery", "loadAllGalleries",
               "loadGallery"}

InvokeGalleryOp ==
    /\ NoCallInFlight
    /\ \E op \in GalleryOps : \E arg \in ArgsOf(op) : Call(1, op, arg)
    /\ UNCHANGED appVars

NextGalleries ==
    \/ InvokeGalleryOp
    \/ OpenSucceeds
    \/ OpenFails
    \/ CreateGallery
    \/ UpdateGallery
    \/ DeleteGallery
    \/ Reads
    \/ RequestSucceeds
    \/ RequestFails
    \/ Commits
    \/ CommitFails
    \/ Tick

SpecGalleries == Init /\ [][NextGalleries]_vars

\* ------------------------------------------------------------ concurrent callers
\* Several callers that do not wait for each other (the overview loading its
\* cards while the user creates or deletes a gallery, a view saving an image),
\* each on the first gallery and the first image.
ConcurrentArgs(op) ==
    CASE op = "createGallery" -> {<<"a">>}
      [] op \in {"deleteGallery", "getGalleryImageCount", "getGalleryCoverImage"} -> {<<1>>}
      [] op = "saveImage" -> {<<[id |-> 1, galleryId |-> 1, timestamp |-> 1]>>}
      [] OTHER -> {<<>>}

ConcurrentOps == {"createGallery", "deleteGallery", "saveImage", "loadAllGalleries",
                  "getGalleryImageCount", "getGalleryCoverImage"}

InvokeConcurrently ==
    /\ \E c \in Slots, op \in ConcurrentOps :
          \E arg \in ConcurrentArgs(op) : Call(c, op, arg)
    /\ UNCHANGED appVars

NextConcurrent ==
    \/ InvokeConcurrently
    \/ OpenSucceeds
    \/ OpenFails
    \/ CreateGallery
    \/ DeleteGallery
    \/ SaveImage
    \/ Reads
    \/ RequestSucceeds
    \/ RequestFails
    \/ Commits
    \/ CommitFails

SpecConcurrent == Init /\ [][NextConcurrent]_vars

\* ------------------------------------------------------------ the application
\* App shows the overview or the view of the selected gallery.  The overview
\* lists the stored galleries (loadGalleries, on mount); its calls go through
\* slot OverviewSlot, the upload's call through slot UploadSlot.
OverviewSlot == MaxCalls - 1

UploadSlot == MaxCalls

\* App.handleSelectGallery: the user clicks the card of a gallery.  The
\* overview unmounts; what a running loadGalleries would still set is lost.
handleSelectGallery ==
    /\ NoMicrotask
    /\ selectedGallery = <<>>
    /\ \E gallery \in galleries : selectedGallery' = <<gallery>>
    /\ view' = MountedView
    /\ overview' = NoOverview
    /\ UNCHANGED <<schema, dbInstance, openRequests, galleries, images, calls, txQueue, now, upload, titleSave, aiFlow>>

\* App.handleBackToOverview: the view unmounts.  A handler of the view that is
\* awaiting something goes on running; what it sets in the view's state is
\* lost.
handleBackToOverview ==
    /\ NoMicrotask
    /\ selectedGallery # <<>>
    /\ selectedGallery' = <<>>
    /\ view' = NoView
    /\ overview' = MountedOverview
    /\ UNCHANGED <<schema, dbInstance, openRequests, galleries, images, calls, txQueue, now, upload, titleSave, aiFlow>>

\* What the user types into a name field, character by character.
TypedNames == {<<>>, <<" ">>, <<"a">>, <<"b">>, <<" ", "a">>, <<"b", " ">>}

RECURSIVE TrimStart(_)
TrimStart(typed) ==
    IF typed # <<>> /\ Head(typed) = " " THEN TrimStart(Tail(typed)) ELSE typed

RECURSIVE TrimEnd(_)
TrimEnd(typed) ==
    IF typed # <<>> /\ typed[Len(typed)] = " "
    THEN TrimEnd(SubSeq(typed, 1, Len(typed) - 1))
    ELSE typed

\* String.prototype.trim.
Trim(typed) == TrimEnd(TrimStart(typed))

\* The string of at most one character; the names of the model are such strings.
Str(typed) == IF typed = <<>> THEN "" ELSE Head(typed)

\* typed === name, for a name of at most one character.
SameText(typed, name) == Len(typed) <= 1 /\ Str(typed) = name

\* Faulty variant: the name goes to createGallery without the check.
handleCreateGalleryUnchecked ==
    /\ selectedGallery = <<>>
    /\ \E typed \in TypedNames :
          /\ Str(Trim(typed)) \in Names
          /\ Call(OverviewSlot, "createGallery", <<Str(Trim(typed))>>)
    /\ UNCHANGED appVars

\* GalleryOverview.handleCreateGallery: it returns at once when the name is
\* empty once trimmed, and passes the trimmed name otherwise.
handleCreateGallery ==
    /\ selectedGallery = <<>>
    /\ \E typed \in TypedNames :
          /\ Trim(typed) # <<>>
          /\ Str(Trim(typed)) \in Names
          /\ Call(OverviewSlot, "createGallery", <<Str(Trim(typed))>>)
    /\ UNCHANGED appVars

\* GalleryOverview.handleDeleteGallery: the user confirms the deletion on the
\* card of a gallery.
handleDeleteGallery ==
    /\ selectedGallery = <<>>
    /\ \E gallery \in galleries : Call(OverviewSlot, "deleteGallery", <<gallery.id>>)
    /\ UNCHANGED appVars

\* The overview's call settled and its transaction is over: handleCreateGallery
\* or handleDeleteGallery goes on to its end.
OverviewSettled ==
    /\ NoMicrotask
    /\ overview.pc \notin {"galleries", "count", "cover"}
    /\ calls[OverviewSlot].pc = "finished"
    /\ calls[OverviewSlot].promise \in {"resolved", "rejected"}
    /\ calls' = [calls EXCEPT ![OverviewSlot] = Idle]
    /\ UNCHANGED <<schema, dbInstance, openRequests, galleries, images, txQueue, now, appVars>>

\* The call of the effect that loads the images of a view.
ViewSlot == MaxCalls - 1

\* GalleryView's effect on mount, loadStoredImages, up to the await.
loadStoredImages ==
    /\ view.load = "mounted"
    /\ Call(ViewSlot, "loadGalleryImages", <<selectedGallery[1].id>>)
    /\ view' = [view EXCEPT !.load = "awaiting"]
    /\ UNCHANGED <<selectedGallery, upload, titleSave, aiFlow, overview>>

\* loadGalleryImages settled: setImages(storedImages) when it resolved, the
\* catch block when it rejected, and setIsLoading(false) in both cases.
LoadSettled ==
    /\ view.load = "awaiting"
    /\ Settled(ViewSlot)
    /\ view' = [view EXCEPT
                   !.load = IF calls[ViewSlot].promise = "resolved"
                            THEN "done" ELSE "failed",
                   !.images = IF calls[ViewSlot].promise = "resolved"
                              THEN calls[ViewSlot].result ELSE @]
    /\ calls' = [calls EXCEPT ![ViewSlot] = Idle]
    /\ UNCHANGED <<schema, dbInstance, openRequests, galleries, images, txQueue, now,
                   selectedGallery, upload, titleSave, aiFlow, overview>>

\* GalleryView.handleFileUpload, up to the first await: the user picked n files
\* in the view of a gallery.  The handler keeps that gallery's id.
MaxFiles == 2

\* The longest list the handlers of a view are started on.
MaxList == 2

\* The images the running handlers of the view will still add to its list.
Growing ==
    (IF "upload" \in view.handlers THEN upload.total ELSE 0)
    + (IF "modal" \in view.handlers /\ aiFlow.kind = "generate" THEN 1 ELSE 0)
    + Cardinality({a \in view.awaiting : a.kind = "generate"})

handleFileUpload ==
    /\ NoMicrotask
    /\ selectedGallery # <<>>
    /\ upload.pc = "idle"
    /\ \E n \in 1..MaxFiles :
          /\ Len(view.images) + Growing + n <= MaxList
          /\ upload' = [pc |-> "analysing", galleryId |-> selectedGallery[1].id,
                        total |-> n, files |-> n, newGalleryImages |-> <<>>]
    /\ view' = [view EXCEPT !.uploadProgress = "set", !.handlers = @ \cup {"upload"}]
    /\ UNCHANGED <<schema, dbInstance, openRequests, galleries, images, calls, txQueue, now,
                   selectedGallery, titleSave, aiFlow, overview>>

\* The next file was read and analysed: its image is pushed.
FileAnalysed ==
    /\ NoMicrotask
    /\ upload.pc = "analysing"
    /\ upload.files > 0
    /\ \E id \in ImageIds :
          upload' = [upload EXCEPT
              !.files = @ - 1,
              !.newGalleryImages = Append(@, [id |-> id, galleryId |-> upload.galleryId,
                                              timestamp |-> now])]
    /\ UNCHANGED <<schema, dbInstance, openRequests, galleries, images, calls, txQueue, now,
                   selectedGallery, titleSave, aiFlow, view, overview>>

\* Reading or analysing the next file failed: the catch block skips the file.
FileFailed ==
    /\ NoMicrotask
    /\ upload.pc = "analysing"
    /\ upload.files > 0
    /\ upload' = [upload EXCEPT !.files = @ - 1]
    /\ UNCHANGED <<schema, dbInstance, openRequests, galleries, images, calls, txQueue, now,
                   selectedGallery, titleSave, aiFlow, view, overview>>

\* The end of handleFileUpload: setImages((prev) => [...newGalleryImages,
\* ...prev]) and setUploadProgress(null), in the view the handler was started
\* in if that is still mounted.
AfterUpload(newGalleryImages) ==
    IF "upload" \in view.handlers
    THEN [view EXCEPT !.images = newGalleryImages \o @,
                      !.uploadProgress = "null",
                      !.handlers = @ \ {"upload"}]
    ELSE view

\* Faulty variant: the save does not wait for the end of the loop.
UploadSaveEarly ==
    /\ upload.pc = "analysing"
    /\ IF Len(upload.newGalleryImages) > 0
       THEN /\ Call(UploadSlot, "saveImages", <<upload.newGalleryImages>>)
            /\ upload' = [upload EXCEPT !.pc = "saving"]
            /\ UNCHANGED view
       ELSE /\ NoMicrotask
            /\ upload' = NoUpload
            /\ view' = AfterUpload(<<>>)
            /\ UNCHANGED <<schema, dbInstance, openRequests, galleries, images, calls, txQueue, now>>
    /\ UNCHANGED <<selectedGallery, titleSave, aiFlow, overview>>

\* After the loop: saveImages(newGalleryImages) when there is an image, the end
\* of the handler when there is none.
UploadSave ==
    /\ upload.pc = "analysing"
    /\ upload.files = 0
    /\ IF Len(upload.newGalleryImages) > 0
       THEN /\ Call(UploadSlot, "saveImages", <<upload.newGalleryImages>>)
            /\ upload' = [upload EXCEPT !.pc = "saving"]
            /\ UNCHANGED view
       ELSE /\ NoMicrotask
            /\ upload' = NoUpload
            /\ view' = AfterUpload(<<>>)
            /\ UNCHANGED <<schema, dbInstance, openRequests, galleries, images, calls, txQueue, now>>
    /\ UNCHANGED <<selectedGallery, titleSave, aiFlow, overview>>

\* saveImages settled: the handler goes on to its end or, on a rejection, ends
\* with the exception, which nothing catches: the state of the view stays as
\* it is.
UploadSettled ==
    /\ upload.pc = "saving"
    /\ Settled(UploadSlot)
    /\ upload' = NoUpload
    /\ calls' = [calls EXCEPT ![UploadSlot] = Idle]
    /\ view' = IF calls[UploadSlot].promise = "resolved"
               THEN AfterUpload(upload.newGalleryImages)
               ELSE [view EXCEPT !.handlers = @ \ {"upload"}]
    /\ UNCHANGED <<schema, dbInstance, openRequests, galleries, images, txQueue, now,
                   selectedGallery, titleSave, aiFlow, overview>>

NextUpload ==
    \/ handleSelectGallery
    \/ handleBackToOverview
    \/ handleCreateGallery
    \/ handleDeleteGallery
    \/ OverviewSettled
    \/ handleFileUpload
    \/ FileAnalysed
    \/ FileFailed
    \/ UploadSave
    \/ UploadSettled
    \/ OpenSucceeds
    \/ OpenFails
    \/ CreateGallery
    \/ DeleteGallery
    \/ SaveImages
    \/ RequestSucceeds
    \/ RequestFails
    \/ Commits
    \/ CommitFails

\* The application starts on an empty database, at any time of the clock: here at
\* the last instant of Times, so that every record carries the same time.
InitUpload ==
    /\ schema = NoDatabase
    /\ dbInstance = "null"
    /\ openRequests = 0
    /\ galleries = {}
    /\ images = {}
    /\ calls = [c \in Slots |-> Idle]
    /\ txQueue = <<>>
    /\ now = MaxTime
    /\ selectedGallery = <<>>
    /\ upload = NoUpload
    /\ titleSave = "idle"
    /\ aiFlow = NoAiFlow
    /\ view = NoView
    /\ overview = MountedOverview

SpecUpload == InitUpload /\ [][NextUpload]_vars

\* ------------------------------------------------------------ the title of a gallery
\* The names a title can be changed to.
EditedNames == {"a", "b"}

TitleSlot == MaxCalls

\* GalleryView.handleSaveTitle, up to the await: a name that is not empty once
\* trimmed and, as typed, differs from the gallery's goes trimmed to
\* updateGallery in a copy of the gallery the view was rendered with.
handleSaveTitle ==
    /\ selectedGallery # <<>>
    /\ titleSave = "idle"
    /\ \E editedName \in TypedNames :
          /\ Trim(editedName) # <<>>
          /\ ~SameText(editedName, selectedGallery[1].name)
          /\ Str(Trim(editedName)) \in EditedNames
          /\ Call(TitleSlot, "updateGallery",
                  <<[selectedGallery[1] EXCEPT !.name = Str(Trim(editedName))]>>)
    /\ titleSave' = "awaiting"
    /\ UNCHANGED <<selectedGallery, upload, aiFlow, view, overview>>

\* updateGallery settled.  Resolved: onGalleryUpdated hands the record, which
\* updateGallery stamped in place, to App.handleGalleryUpdated.  Rejected: the
\* handler ends with the exception.
SaveTitleSettled ==
    /\ NoMicrotask
    /\ titleSave = "awaiting"
    /\ calls[TitleSlot].promise \in {"resolved", "rejected"}
    /\ selectedGallery' = IF calls[TitleSlot].promise = "resolved"
                          THEN <<calls[TitleSlot].arg[1]>> ELSE selectedGallery
    /\ titleSave' = "idle"
    /\ UNCHANGED <<schema, dbInstance, openRequests, galleries, images, calls, txQueue, now,
                   upload, aiFlow, view, overview>>

NextTitle ==
    \/ handleSelectGallery
    \/ handleBackToOverview
    \/ handleCreateGallery
    \/ handleDeleteGallery
    \/ OverviewSettled
    \/ handleSaveTitle
    \/ SaveTitleSettled
    \/ OpenSucceeds
    \/ OpenFails
    \/ CreateGallery
    \/ UpdateGallery
    \/ DeleteGallery
    \/ RequestSucceeds
    \/ RequestFails
    \/ Commits
    \/ CommitFails

SpecTitle == InitUpload /\ [][NextTitle]_vars

\* ------------------------------------------------------------ calls that settle
\* The database version 1 of the application left behind: the images store
\* with its timestamp index.
Version1Database ==
    [version |-> 1, stores |-> {IMAGES_STORE},
     indexes |-> {<<IMAGES_STORE, "timestamp">>}, error |-> FALSE]

\* The open request needs an upgrade and another connection to the database
\* (another tab) stays open: a blocked event is dispatched, for which openDB
\* sets no handler, and the request waits.
OpenBlocked(c) ==
    /\ NoMicrotask
    /\ calls[c].pc = "opening"
    /\ schema.version \in 1..(DB_VERSION - 1)
    /\ calls' = [calls EXCEPT ![c].pc = "blocked"]
    /\ UNCHANGED <<schema, dbInstance, openRequests, galleries, images, txQueue, now, appVars>>

\* The other connections were closed: the open request goes on.
OpenUnblocked(c) ==
    /\ NoMicrotask
    /\ calls[c].pc = "blocked"
    /\ calls' = [calls EXCEPT ![c].pc = "opening"]
    /\ UNCHANGED <<schema, dbInstance, openRequests, galleries, images, txQueue, now, appVars>>

OpenBlocks == \E c \in Slots : OpenBlocked(c)
OpenUnblocks == \E c \in Slots : OpenUnblocked(c)

\* A caller that awaits each call, on the first gallery and the first image.
AwaitedOps == {"createGallery", "saveImage", "saveImages", "deleteGallery",
               "loadGalleryImages"}

AwaitedArgs(op) ==
    CASE op = "createGallery" -> {<<"a">>}
      [] op \in {"deleteGallery", "loadGalleryImages"} -> {<<1>>}
      [] op = "saveImage" -> {<<[id |-> 1, galleryId |-> 1, timestamp |-> 1]>>}
      [] op = "saveImages" -> {<< <<[id |-> 1, galleryId |-> 1, timestamp |-> 1]>> >>}

InvokeAwaited ==
    /\ NoCallInFlight
    /\ \A c \in Slots : calls[c].promise # "pending"
    /\ \E op \in AwaitedOps : \E arg \in AwaitedArgs(op) : Call(1, op, arg)
    /\ UNCHANGED appVars

NextAwaited ==
    \/ InvokeAwaited
    \/ OpenSucceeds
    \/ OpenFails
    \/ OpenBlocks
    \/ OpenUnblocks
    \/ CreateGallery
    \/ DeleteGallery
    \/ SaveImage
    \/ SaveImages
    \/ Reads
    \/ RequestSucceeds
    \/ RequestFails
    \/ Commits
    \/ CommitFails

\* The application starts on no database or on the one version 1 left.
InitAwaited ==
    /\ schema \in {NoDatabase, Version1Database}
    /\ dbInstance = "null"
    /\ openRequests = 0
    /\ galleries = {}
    /\ images = {}
    /\ calls = [c \in Slots |-> Idle]
    /\ txQueue = <<>>
    /\ now = 1
    /\ selectedGallery = <<>>
    /\ upload = NoUpload
    /\ titleSave = "idle"
    /\ aiFlow = NoAiFlow
    /\ view = NoView
    /\ overview = MountedOverview

\* The browser delivers its events: an open request gets its success, error or
\* blocked event, a function with its connection runs its executor, a request
\* gets its success or error event, a transaction completes or aborts.
FairEvents ==
    /\ WF_vars(OpenSucceeds \/ OpenFails \/ OpenBlocks)
    /\ WF_vars(CreateGallery \/ DeleteGallery \/ SaveImage \/ SaveImages \/ Reads)
    /\ WF_vars(RequestSucceeds \/ RequestFails)
    /\ WF_vars(Commits \/ CommitFails)

SpecAwaited == InitAwaited /\ [][NextAwaited]_vars /\ FairEvents

\* ------------------------------------------------------------ a writer and a reader
\* One caller creates galleries, saves a batch of two images into the
\* first gallery and deletes that gallery; another one reads, without waiting
\* for the first.
UnitBatch == <<[id |-> 1, galleryId |-> 1, timestamp |-> 1],
               [id |-> 2, galleryId |-> 1, timestamp |-> 1]>>

WriterSlot == MaxCalls - 1

ReaderSlot == MaxCalls

InvokeUnit ==
    /\ \/ Call(WriterSlot, "createGallery", <<"a">>)
       \/ Call(WriterSlot, "saveImages", <<UnitBatch>>)
       \/ Call(WriterSlot, "deleteGallery", <<1>>)
    /\ UNCHANGED appVars

InvokeRead ==
    /\ \/ Call(ReaderSlot, "loadGallery", <<1>>)
       \/ Call(ReaderSlot, "loadAllGalleries", <<>>)
       \/ Call(ReaderSlot, "loadGalleryImages", <<1>>)
       \/ Call(ReaderSlot, "getGalleryImageCount", <<1>>)
    /\ UNCHANGED appVars

NextUnits ==
    \/ InvokeUnit
    \/ InvokeRead
    \/ OpenSucceeds
    \/ OpenFails
    \/ CreateGallery
    \/ DeleteGallery
    \/ SaveImages
    \/ Reads
    \/ RequestSucceeds
    \/ RequestFails
    \/ Commits
    \/ CommitFails

SpecUnits == Init /\ [][NextUnits]_vars

\* ------------------------------------------------------------ migration
\* The schema the current version works on.
Version2Database ==
    [version |-> DB_VERSION, stores |-> {IMAGES_STORE, GALLERIES_STORE},
     indexes |-> {<<IMAGES_STORE, "timestamp">>, <<IMAGES_STORE, "galleryId">>,
                  <<GALLERIES_STORE, "createdAt">>},
     error |-> FALSE]

\* Images version 1 stored: they have no galleryId (0 here, the id of no
\* gallery), so the galleryId index holds no entry for them.
LegacyImages == {[id |-> i, galleryId |-> 0, timestamp |-> 1] : i \in ImageIds}

\* The application starts on no database, on the database version 1 left with
\* its images, or on a database of the current version with its records.
InitMigration ==
    /\ \/ /\ schema = NoDatabase
          /\ images = {}
          /\ galleries = {}
       \/ /\ schema = Version1Database
          /\ images \in SUBSET LegacyImages
          /\ galleries = {}
       \/ /\ schema = Version2Database
          /\ images \in SUBSET {[id |-> 1, galleryId |-> 1, timestamp |-> 1]}
          /\ galleries \in SUBSET {[id |-> 1, name |-> "a", createdAt |-> 1,
                                     updatedAt |-> 1]}
    /\ dbInstance = "null"
    /\ openRequests = 0
    /\ calls = [c \in Slots |-> Idle]
    /\ txQueue = <<>>
    /\ now = 1
    /\ selectedGallery = <<>>
    /\ upload = NoUpload
    /\ titleSave = "idle"
    /\ aiFlow = NoAiFlow
    /\ view = NoView
    /\ overview = MountedOverview

SpecMigration == InitMigration /\ [][NextAwaited]_vars

\* ------------------------------------------------------------ the AI flows
\* What an image shows: 0 is what the stored image shows at the start, the rest
\* is what the image service can return.
MaxContent == 1

Contents == 1..MaxContent

\* The gallery and the image the application starts with: an image that was
\* uploaded earlier.
StoredGallery == [id |-> 1, name |-> "a", createdAt |-> 1, updatedAt |-> 1]

StoredImage == [id |-> 1, galleryId |-> 1, timestamp |-> 1, base64 |-> 0]

\* ImageEditorModal.handleEdit, up to the first await: the user opened the
\* editor on an image of the view and submits a prompt.
handleEdit ==
    /\ NoMicrotask
    /\ selectedGallery # <<>>
    /\ aiFlow.pc = "idle"
    /\ \E image \in Range(view.images) :
          aiFlow' = [NoAiFlow EXCEPT !.pc = "generating", !.kind = "edit",
                                     !.galleryId = selectedGallery[1].id,
                                     !.image = <<image>>]
    /\ view' = [view EXCEPT !.handlers = @ \cup {"modal"}]
    /\ UNCHANGED <<schema, dbInstance, openRequests, galleries, images, calls, txQueue, now,
                   selectedGallery, upload, titleSave, overview>>

\* ImageGeneratorModal.handleGenerate, up to the first await: a prompt and at
\* least one reference image of the view are chosen.
handleGenerate ==
    /\ NoMicrotask
    /\ selectedGallery # <<>>
    /\ aiFlow.pc = "idle"
    /\ view.images # <<>>
    /\ Len(view.images) + Growing + 1 <= MaxList
    /\ aiFlow' = [NoAiFlow EXCEPT !.pc = "generating", !.kind = "generate",
                                  !.galleryId = selectedGallery[1].id]
    /\ view' = [view EXCEPT !.handlers = @ \cup {"modal"}]
    /\ UNCHANGED <<schema, dbInstance, openRequests, galleries, images, calls, txQueue, now,
                   selectedGallery, upload, titleSave, overview>>

\* editImage or generateThemedImage resolved with an image: the handler goes on
\* to analyzeImage.
ImageResolved ==
    /\ NoMicrotask
    /\ aiFlow.pc = "generating"
    /\ \E base64 \in Contents :
          aiFlow' = [aiFlow EXCEPT !.pc = "analysing", !.result = base64]
    /\ UNCHANGED <<schema, dbInstance, openRequests, galleries, images, calls, txQueue, now,
                   selectedGallery, upload, titleSave, view, overview>>

\* Faulty variant: the image is saved as the modal built it.
WithoutGallery(newImage, galleryId) == newImage

\* GalleryView.handleAddImageGenerated: { ...newImage, galleryId: gallery.id }.
WithGallery(newImage, galleryId) == [newImage EXCEPT !.galleryId = galleryId]

\* The record the handler builds once analyzeImage resolved: the image with the
\* new content in the edit flow; in the generation flow a new image without a
\* gallery (0, the id of no gallery), to which handleAddImageGenerated adds the
\* gallery of its view.
BuiltImage(id) ==
    IF aiFlow.kind = "edit"
    THEN [aiFlow.image[1] EXCEPT !.base64 = aiFlow.result]
    ELSE WithGallery([id |-> id, galleryId |-> 0, timestamp |-> now,
                      base64 |-> aiFlow.result],
                     aiFlow.galleryId)

\* A call slot no handler of the view is awaiting.
Free(c) == \A a \in view.awaiting : a.slot # c

\* The view once a handler of it awaits the call in slot c: what it does with
\* the image when the call has settled is kept with the slot.
Awaiting(c, kind, image) ==
    IF "modal" \in view.handlers \/ kind = "delete"
    THEN [view EXCEPT !.handlers = @ \ (IF kind = "delete" THEN {} ELSE {"modal"}),
                      !.awaiting = @ \cup {[slot |-> c, kind |-> kind, image |-> image]}]
    ELSE view

\* Faulty variant: the catch block hands on what the handler has so far.
AiStepRejectedSaves ==
    /\ aiFlow.pc \in {"generating", "analysing"}
    /\ \E c \in Slots, id \in ImageIds :
          /\ Free(c)
          /\ Call(c, "saveImage", <<BuiltImage(id)>>)
          /\ view' = Awaiting(c, aiFlow.kind, BuiltImage(id))
    /\ aiFlow' = [aiFlow EXCEPT !.pc = "idle", !.error = TRUE]
    /\ UNCHANGED <<selectedGallery, upload, titleSave, overview>>

\* editImage, generateThemedImage or analyzeImage rejected: the catch block
\* sets the error and the handler ends.
AiStepRejected ==
    /\ NoMicrotask
    /\ aiFlow.pc \in {"generating", "analysing"}
    /\ aiFlow' = [aiFlow EXCEPT !.pc = "idle", !.error = TRUE]
    /\ view' = [view EXCEPT !.handlers = @ \ {"modal"}]
    /\ UNCHANGED <<schema, dbInstance, openRequests, galleries, images, calls, txQueue, now,
                   selectedGallery, upload, titleSave, overview>>

\* analyzeImage resolved: the handler builds the record and hands it to
\* onImageUpdated or onImageGenerated, that is to GalleryView.handleImageUpdated
\* or handleAddImageGenerated, which call saveImage and await it; the handler
\* of the modal ends without waiting for them.
AnalyzeImageResolved ==
    /\ aiFlow.pc = "analysing"
    /\ \E c \in Slots, id \in ImageIds :
          /\ Free(c)
          /\ Call(c, "saveImage", <<BuiltImage(id)>>)
          /\ view' = Awaiting(c, aiFlow.kind, BuiltImage(id))
    /\ aiFlow' = NoAiFlow
    /\ UNCHANGED <<selectedGallery, upload, titleSave, overview>>

\* What a handler of the view sets once the call it awaited resolved:
\* handleImageUpdated replaces the image in the list, handleAddImageGenerated
\* puts it in front, handleDeleteImage filters it out.
SetImages(list, kind, image) ==
    CASE kind = "edit" ->
             [i \in DOMAIN list |-> IF list[i].id = image.id THEN image ELSE list[i]]
      [] kind = "generate" -> <<image>> \o list
      [] kind = "delete" -> SelectSeq(list, LAMBDA img : img.id # image.id)

\* A call that handleImageUpdated, handleAddImageGenerated or
\* handleDeleteImage awaits has settled: the handler sets the list when the
\* call resolved and ends with the exception when it rejected.
ViewContinues ==
    /\ \E a \in view.awaiting :
          /\ Settled(a.slot)
          /\ view' = [view EXCEPT
                         !.awaiting = @ \ {a},
                         !.images = IF calls[a.slot].promise = "resolved"
                                    THEN SetImages(@, a.kind, a.image) ELSE @]
    /\ UNCHANGED <<schema, dbInstance, openRequests, galleries, images, calls, txQueue, now,
                   selectedGallery, upload, titleSave, aiFlow, overview>>

NextAi ==
    \/ handleSelectGallery
    \/ handleBackToOverview
    \/ loadStoredImages
    \/ LoadSettled
    \/ ViewContinues
    \/ handleEdit
    \/ handleGenerate
    \/ ImageResolved
    \/ AiStepRejected
    \/ AnalyzeImageResolved
    \/ OpenSucceeds
    \/ OpenFails
    \/ Reads
    \/ SaveImage
    \/ RequestSucceeds
    \/ RequestFails
    \/ Commits
    \/ CommitFails

\* The application starts on a database of the current version that holds a
\* gallery with an image.
InitAi ==
    /\ schema = Version2Database
    /\ dbInstance = "null"
    /\ openRequests = 0
    /\ galleries = {StoredGallery}
    /\ images = {StoredImage}
    /\ calls = [c \in Slots |-> Idle]
    /\ txQueue = <<>>
    /\ now = MaxTime
    /\ selectedGallery = <<>>
    /\ upload = NoUpload
    /\ titleSave = "idle"
    /\ aiFlow = NoAiFlow
    /\ view = NoView
    /\ overview = MountedOverview

SpecAi == InitAi /\ [][NextAi]_vars

\* ------------------------------------------------------------ edits and deletions
\* GalleryView.handleDeleteImage: the user deletes an image on the grid of the
\* view.  The editor is closed by then (Cancel closes it while handleEdit
\* awaits, and handleEdit runs on).
handleDeleteImage ==
    /\ selectedGallery # <<>>
    /\ \E c \in Slots :
         \E image \in Range(view.images) :
             /\ Free(c)
             /\ Call(c, "deleteImage", <<image.id>>)
             /\ view' = Awaiting(c, "delete", image)
    /\ UNCHANGED <<selectedGallery, upload, titleSave, aiFlow, overview>>

NextEdit ==
    \/ handleSelectGallery
    \/ handleBackToOverview
    \/ loadStoredImages
    \/ LoadSettled
    \/ ViewContinues
    \/ handleEdit
    \/ ImageResolved
    \/ AiStepRejected
    \/ AnalyzeImageResolved
    \/ handleDeleteImage
    \/ OpenSucceeds
    \/ OpenFails
    \/ Reads
    \/ SaveImage
    \/ DeleteImage
    \/ RequestSucceeds
    \/ RequestFails
    \/ Commits
    \/ CommitFails

SpecEdit == InitAi /\ [][NextEdit]_vars

\* ------------------------------------------------------------ lookups and deletions by id
\* One caller that stores galleries and images and looks up or deletes by id,
\* one call after the other.
ByIdOps == {"createGallery", "saveImage", "loadGallery", "deleteImage", "deleteGallery"}

InvokeById ==
    /\ NoCallInFlight
    /\ \E op \in ByIdOps :
         \E arg \in {a \in ArgsOf(op) : op = "createGallery" => a[1] = "a"} :
             Call(1, op, arg)
    /\ UNCHANGED appVars

NextById ==
    \/ InvokeById
    \/ OpenSucceeds
    \/ OpenFails
    \/ CreateGallery
    \/ DeleteGallery
    \/ SaveImage
    \/ DeleteImage
    \/ Reads
    \/ RequestSucceeds
    \/ RequestFails
    \/ Commits
    \/ CommitFails

SpecById == Init /\ [][NextById]_vars

\* ------------------------------------------------------------ the list of the view
\* The view of a stored gallery, opened once and kept open: its images are
\* loaded, uploaded and deleted while time passes.
NextView ==
    \/ handleSelectGallery
    \/ loadStoredImages
    \/ LoadSettled
    \/ handleFileUpload
    \/ FileAnalysed
    \/ FileFailed
    \/ UploadSave
    \/ UploadSettled
    \/ handleDeleteImage
    \/ ViewContinues
    \/ Tick
    \/ OpenSucceeds
    \/ OpenFails
    \/ SaveImages
    \/ DeleteImage
    \/ Reads
    \/ RequestSucceeds
    \/ RequestFails
    \/ Commits
    \/ CommitFails

\* The application starts on a database of the current version that holds a
\* gallery without images.
InitView ==
    /\ schema = Version2Database
    /\ dbInstance = "null"
    /\ openRequests = 0
    /\ galleries = {StoredGallery}
    /\ images = {}
    /\ calls = [c \in Slots |-> Idle]
    /\ txQueue = <<>>
    /\ now = 1
    /\ selectedGallery = <<>>
    /\ upload = NoUpload
    /\ titleSave = "idle"
    /\ aiFlow = NoAiFlow
    /\ view = NoView
    /\ overview = MountedOverview

SpecView == InitView /\ [][NextView]_vars

\* ------------------------------------------------------------ the cards of the overview
\* The most galleries loadGalleries builds cards for.
MaxCards == 1

\* GalleryOverview's effect on mount, loadGalleries, up to its first await.
loadGalleries ==
    /\ overview.pc = "mounted"
    /\ Call(OverviewSlot, "loadAllGalleries", <<>>)
    /\ overview' = [overview EXCEPT !.pc = "galleries"]
    /\ UNCHANGED <<selectedGallery, upload, titleSave, aiFlow, view>>

\* loadGalleries ends: `cards` go to setGalleries, or the catch block ran.
EndLoadGalleries(pc, cards) ==
    /\ overview' = [overview EXCEPT !.pc = pc, !.galleriesWithMeta = cards]
    /\ calls' = [calls EXCEPT ![OverviewSlot] = Idle]
    /\ UNCHANGED <<schema, dbInstance, openRequests, galleries, images, txQueue, now>>

\* loadAllGalleries settled.  The mapper handed to allGalleries.map runs for
\* each gallery up to its first await, the call of getGalleryImageCount.
GalleriesLoaded ==
    LET call == calls[OverviewSlot]
    IN  /\ overview.pc = "galleries"
        /\ Settled(OverviewSlot)
        /\ IF call.promise = "rejected" THEN EndLoadGalleries("failed", <<>>)
           ELSE IF call.result = <<>> THEN EndLoadGalleries("done", <<>>)
           ELSE /\ Len(call.result) <= MaxCards
                /\ Issue(OverviewSlot, "getGalleryImageCount", <<call.result[1].id>>)
                /\ overview' = [overview EXCEPT !.pc = "count",
                                                !.allGalleries = call.result]
        /\ UNCHANGED <<selectedGallery, upload, titleSave, aiFlow, view>>

\* getGalleryImageCount settled: the mapper keeps the count and calls
\* getGalleryCoverImage.
CountSettled ==
    LET call == calls[OverviewSlot]
    IN  /\ overview.pc = "count"
        /\ Settled(OverviewSlot)
        /\ IF call.promise = "rejected" THEN EndLoadGalleries("failed", <<>>)
           ELSE /\ Issue(OverviewSlot, "getGalleryCoverImage",
                         <<overview.allGalleries[1].id>>)
                /\ overview' = [overview EXCEPT !.pc = "cover",
                                                !.imageCount = call.result[1]]
        /\ UNCHANGED <<selectedGallery, upload, titleSave, aiFlow, view>>

\* getGalleryCoverImage settled: the card is complete, Promise.all resolves
\* and setGalleries(galleriesWithMeta) runs.
CoverSettled ==
    LET call == calls[OverviewSlot]
    IN  /\ overview.pc = "cover"
        /\ Settled(OverviewSlot)
        /\ IF call.promise = "rejected" THEN EndLoadGalleries("failed", <<>>)
           ELSE EndLoadGalleries("done",
                    << [gallery |-> overview.allGalleries[1],
                        imageCount |-> overview.imageCount,
                        coverImage |-> call.result] >>)
        /\ UNCHANGED <<selectedGallery, upload, titleSave, aiFlow, view>>

\* The overview and the view of a stored gallery: the user uploads images in
\* the view and goes back to the overview, which loads its cards.
NextOverview ==
    \/ handleSelectGallery
    \/ handleBackToOverview
    \/ loadGalleries
    \/ GalleriesLoaded
    \/ CountSettled
    \/ CoverSettled
    \/ loadStoredImages
    \/ LoadSettled
    \/ handleFileUpload
    \/ FileAnalysed
    \/ FileFailed
    \/ UploadSave
    \/ UploadSettled
    \/ OpenSucceeds
    \/ OpenFails
    \/ SaveImages
    \/ Reads
    \/ RequestSucceeds
    \/ RequestFails
    \/ Commits
    \/ CommitFails

SpecOverview == InitView /\ [][NextOverview]_vars

\* ------------------------------------------------------------ properties
ImagesOf(store, galleryId) == {r \in store : r.galleryId = galleryId}


\* C1 (cascade completeness): the step that resolves deleteGallery(G) leaves
\* loadGalleryImages(G) empty, getGalleryImageCount(G) at 0, no gallery record
\* G, and no record under the id of any image that belonged to G.
C1_CascadeComplete ==
    [][\A c \in Slots :
          (/\ calls[c].op = "deleteGallery"
           /\ calls[c].promise = "pending"
           /\ calls'[c].promise = "resolved")
          => LET G == calls[c].arg[1]
             IN  /\ LoadGalleryImagesOf(images', G) = <<>>
                 /\ GalleryImageCountOf(images', G) = 0
                 /\ Get(galleries', G) = {}
                 /\ \A r \in ImagesOf(images, G) : Get(images', r.id) = {}]_vars

\* A deleteGallery(G) about to commit, G stored with every image of the store
\* in it.
C1_Witness ==
    \E c \in Slots :
        /\ calls[c].op = "deleteGallery"
        /\ calls[c].pc = "tx"
        /\ calls[c].reqs = <<>>
        /\ Get(galleries, calls[c].arg[1]) # {}
        /\ Cardinality(ImagesOf(images, calls[c].arg[1])) = MaxImages

\* C2 (no orphaned images): every stored image's galleryId is the id of a
\* stored gallery, also when an upload was in flight while its gallery was
\* deleted.
C2_NoOrphanedImages == \A r \in images : Get(galleries, r.galleryId) # {}

\* C3 (atomic cascade): while deleteGallery(G)'s transaction runs, a step either
\* resolves the promise with the gallery record and all images of G gone, or
\* leaves both stores exactly as they were and does not resolve.
C3_AtomicCascade ==
    [][\A c \in Slots :
          (calls[c].op = "deleteGallery" /\ calls[c].pc = "tx")
          => LET G == calls[c].arg[1]
             IN  \/ /\ calls'[c].promise = "resolved"
                    /\ Get(galleries', G) = {}
                    /\ ImagesOf(images', G) = {}
                 \/ /\ calls'[c].promise # "resolved"
                    /\ galleries' = galleries
                    /\ images' = images]_vars

\* A deleteGallery(G) in the middle of its cascade: in the transaction the
\* gallery record and one image of G are deleted and the cursor still has an
\* image to visit, while G and its images are all still stored.
C3_Witness ==
    \E c \in Slots :
        /\ calls[c].op = "deleteGallery"
        /\ calls[c].pc = "tx"
        /\ calls[c].tx = "active"
        /\ calls[c].promise = "pending"
        /\ Get(calls[c].wg, calls[c].arg[1]) = {}
        /\ Cardinality(ImagesOf(calls[c].wi, calls[c].arg[1])) = MaxImages - 1
        /\ Get(galleries, calls[c].arg[1]) # {}
        /\ Cardinality(ImagesOf(images, calls[c].arg[1])) = MaxImages

\* C4 (atomic batch): when the transaction of saveImages(K images), K >= 1,
\* aborts, the images store is what it was and the promise is rejected.
C4_AtomicBatchRejects ==
    [][\A c \in Slots :
          (/\ calls[c].op = "saveImages"
           /\ calls[c].pc = "tx"
           /\ Len(calls[c].arg[1]) >= 1
           /\ calls'[c].tx = "aborted")
          => /\ images' = images
             /\ calls'[c].promise = "rejected"]_vars

\* C5 (failures reject): a write whose transaction aborted without committing
\* has a rejected promise; in particular it did not report success.
C5_UncommittedWriteRejects ==
    \A c \in Slots :
        (calls[c].op \in WriteOps /\ calls[c].tx = "aborted")
        => calls[c].promise = "rejected"

\* C6 (one connection): indexedDB.open is requested at most once, whatever the
\* interleaving of the calls.
C6_OpenedAtMostOnce == openRequests <= 1

\* C7 (count consistency): getGalleryImageCount(G) is the length of
\* loadGalleryImages(G), for every gallery id and every stored state.
C7_CountConsistent ==
    \A G \in GalleryIds :
        GalleryImageCountOf(images, G) = Len(LoadGalleryImagesOf(images, G))

\* Two galleries hold images, one of them several.
C7_Witness ==
    /\ \E G \in GalleryIds : GalleryImageCountOf(images, G) >= 2
    /\ \E c \in Slots :
          /\ calls[c].op = "getGalleryImageCount"
          /\ calls[c].promise = "resolved"
          /\ calls[c].result = <<2>>

\* A list holds exactly the records of a set, each once, newest first.
IsNewestFirst(list, recs) ==
    /\ Range(list) = recs
    /\ Len(list) = Cardinality(recs)
    /\ \A i, j \in DOMAIN list : i < j => list[i].timestamp >= list[j].timestamp

\* C8: loadGalleryImages(G) is exactly the stored images of G, each once,
\* by timestamp descending; so is what a call of it resolved with.
C8_LoadGalleryImagesSorted ==
    /\ \A G \in GalleryIds :
          IsNewestFirst(LoadGalleryImagesOf(images, G), ImagesOf(images, G))
    /\ \A c \in Slots :
          (calls[c].op = "loadGalleryImages" /\ calls[c].promise = "resolved")
          => IsNewestFirst(calls[c].result, ImagesOf(images, calls[c].arg[1]))

\* A call resolved with two images that the cursor visited oldest first.
C8_Witness ==
    \E c \in Slots :
        /\ calls[c].op = "loadGalleryImages"
        /\ calls[c].promise = "resolved"
        /\ Len(calls[c].result) = 2
        /\ calls[c].result[1].id > calls[c].result[2].id
        /\ calls[c].result[1].timestamp > calls[c].result[2].timestamp

\* A list holds exactly the records of a set, each once, newest created first.
IsNewestCreatedFirst(list, recs) ==
    /\ Range(list) = recs
    /\ Len(list) = Cardinality(recs)
    /\ \A i, j \in DOMAIN list : i < j => list[i].createdAt >= list[j].createdAt

\* C9: loadAllGalleries is every stored gallery record, each once, by createdAt
\* descending; so is what a call of it resolved with.
C9_LoadAllGalleriesSorted ==
    /\ IsNewestCreatedFirst(LoadAllGalleriesOf(galleries), galleries)
    /\ \A c \in Slots :
          (calls[c].op = "loadAllGalleries" /\ calls[c].promise = "resolved")
          => IsNewestCreatedFirst(calls[c].result, galleries)

\* A call resolved with two galleries, the one with the smaller id created
\* last, the other one updated after its creation.
C9_Witness ==
    \E c \in Slots :
        /\ calls[c].op = "loadAllGalleries"
        /\ calls[c].promise = "resolved"
        /\ Len(calls[c].result) = 2
        /\ calls[c].result[1].id < calls[c].result[2].id
        /\ calls[c].result[1].createdAt > calls[c].result[2].createdAt
        /\ calls[c].result[2].updatedAt > calls[c].result[2].createdAt

\* C10 (cover derivation): getGalleryCoverImage(G) is null when G has no image
\* and otherwise the head of loadGalleryImages(G): a stored image of G that no
\* image of G is newer than.
C10_CoverDerivation ==
    \A G \in GalleryIds :
        LET cover == GalleryCoverImageOf(images, G)
            own == ImagesOf(images, G)
        IN  IF own = {} THEN cover = <<>>
            ELSE /\ Len(cover) = 1
                 /\ cover[1] \in own
                 /\ cover[1] = LoadGalleryImagesOf(images, G)[1]
                 /\ \A r \in own : cover[1].timestamp >= r.timestamp

\* A cover call resolved with an image while another gallery holds a newer one.
C10_Witness ==
    \E c \in Slots :
        /\ calls[c].op = "getGalleryCoverImage"
        /\ calls[c].promise = "resolved"
        /\ Len(calls[c].result) = 1
        /\ calls[c].result = GalleryCoverImageOf(images, calls[c].arg[1])
        /\ \E r \in images : /\ r.galleryId # calls[c].arg[1]
                             /\ r.timestamp > calls[c].result[1].timestamp

C12_UpdatedNotBeforeCreated == \A g \in galleries : g.updatedAt >= g.createdAt
\* C13 (created record): createGallery builds a record with the given name and
\* with createdAt and updatedAt both the one time of the call, and the record it
\* commits is the record it returns.
C13_CreateGalleryRecord ==
    [][\A c \in Slots :
          calls[c].op = "createGallery"
          => /\ (calls[c].pc = "opened" /\ calls'[c].pc = "tx")
                => /\ calls'[c].arg[1].name = calls[c].arg[1]
                   /\ calls'[c].arg[1].createdAt = now
                   /\ calls'[c].arg[1].updatedAt = now
             /\ (calls[c].pc = "tx" /\ calls'[c].tx = "committed")
                => /\ calls[c].arg[1] \in galleries'
                   /\ calls'[c].result = calls[c].arg]_vars
\* C14 (a create adds): the step that commits a createGallery stores one
\* gallery more than before, under an id no stored gallery had, and leaves
\* every gallery stored before as it was.
C14_CreateAddsNewGallery ==
    [][\A c \in Slots :
          (/\ calls[c].op = "createGallery"
           /\ calls[c].pc = "tx"
           /\ calls'[c].tx = "committed")
          => /\ Get(galleries, calls[c].arg[1].id) = {}
             /\ Cardinality(galleries') = Cardinality(galleries) + 1
             /\ galleries \subseteq galleries']_vars
\* C15 (galleries come from createGallery): a gallery id that was not stored
\* becomes stored only in the step that commits a createGallery of that id; an
\* updateGallery of an id that is not stored, never created or deleted
\* meanwhile, adds nothing.
C15_OnlyCreateAddsGalleries ==
    [][\A id \in GalleryIds :
          (Get(galleries, id) = {} /\ Get(galleries', id) # {})
          => \E c \in Slots :
                /\ calls[c].op = "createGallery"
                /\ calls[c].pc = "tx"
                /\ calls'[c].tx = "committed"
                /\ calls[c].arg[1].id = id]_vars
\* C16 (every call settles): a call whose promise is pending is eventually
\* resolved or rejected, whatever its open request and its transaction do.
C16_EveryCallSettles ==
    \A c \in Slots :
        (calls[c].promise = "pending") ~> (calls[c].promise \in {"resolved", "rejected"})
\* The store after every put of a batch.
RECURSIVE PutAll(_, _)
PutAll(store, batch) ==
    IF batch = <<>> THEN store ELSE PutAll(Put(store, Head(batch)), Tail(batch))

\* C17 (units appear atomic): a read resolves with what its function yields on
\* the stored records, never on a transaction's view; a step of saveImages(K)
\* leaves the stored images as they were or stores all K; a step of
\* deleteGallery(G) leaves both stores as they were or removes the record of G
\* and every image of G; so a read of the first gallery's images yields none or
\* all of a batch, never a part of it.
C17_UnitsAppearAtomic ==
    [][/\ \A c \in Slots :
             (/\ calls[c].op \in ReadOps
              /\ calls[c].promise = "pending"
              /\ calls'[c].promise = "resolved")
             => calls'[c].result =
                    ReadResult(calls[c].op, calls[c].arg, galleries, images)
       /\ \A d \in Slots :
             (calls[d].op = "saveImages" /\ calls[d].pc = "tx" /\ calls'[d] # calls[d])
             => /\ galleries' = galleries
                /\ \/ images' = images
                   \/ images' = PutAll(images, calls[d].arg[1])
       /\ \A d \in Slots :
             (calls[d].op = "deleteGallery" /\ calls[d].pc = "tx" /\ calls'[d] # calls[d])
             => \/ galleries' = galleries /\ images' = images
                \/ /\ galleries' = Delete(galleries, calls[d].arg[1])
                   /\ images' = images \ ImagesOf(images, calls[d].arg[1])
       /\ \A c \in Slots :
             /\ (calls'[c].op = "loadGalleryImages" /\ calls'[c].promise = "resolved")
                => Range(calls'[c].result) \in {{}, Range(UnitBatch)}
             /\ (calls'[c].op = "getGalleryImageCount" /\ calls'[c].promise = "resolved")
                => calls'[c].result \in {<<0>>, <<Len(UnitBatch)>>}]_vars

\* A read waits behind a saveImages transaction that has put one image of its
\* two, or behind a deleteGallery transaction that has deleted the gallery
\* record and one image of its two.
C17_Witness ==
    /\ calls[ReaderSlot].op \in {"loadGalleryImages", "getGalleryImageCount"}
    /\ calls[ReaderSlot].pc = "tx"
    /\ calls[WriterSlot].pc = "tx"
    /\ calls[WriterSlot].tx = "active"
    /\ calls[WriterSlot].op \in {"saveImages", "deleteGallery"}
    /\ Cardinality(calls[WriterSlot].wi) = 1
    /\ Cardinality(images) \in {0, 2}
\* C18 (idempotent migration): from every schema the database can have, the
\* upgrade step yields the stores images{timestamp, galleryId} and
\* galleries{createdAt} without creating anything twice, and run again on its
\* own result it changes nothing; the open that runs it leaves the database
\* with exactly that schema and every stored record as it was.
C18_MigrationIdempotent ==
    [][LET upgraded == OnUpgradeNeeded(schema)
       IN  /\ ~upgraded.error
           /\ upgraded.stores = Version2Database.stores
           /\ upgraded.indexes = Version2Database.indexes
           /\ OnUpgradeNeeded(upgraded) = upgraded
           /\ schema' # schema
              => /\ schema' = Version2Database
                 /\ images' = images
                 /\ galleries' = galleries]_vars

\* The database version 1 left was opened: it has the schema of version 2 and
\* still holds the images it held.
C18_Witness ==
    /\ dbInstance = "db"
    /\ schema = Version2Database
    /\ LegacyImages \subseteq images
\* C19 (multi-file upload): while files of an upload are still to be read and
\* analysed, no image record is put and no storage call of the upload is
\* issued; each file adds one image of the gallery to the batch or, failing,
\* nothing; after the last file the upload issues one saveImages call with the
\* whole batch, or no call when the batch is empty; the only image records
\* stored are those of that batch.
C19_UploadWritesOneBatch ==
    [][/\ upload.pc = "analysing"
          => /\ images' \subseteq images
             /\ calls[UploadSlot] = Idle
             /\ Len(upload.newGalleryImages) + upload.files <= upload.total
       /\ upload.pc = "analysing" /\ upload.files > 0
          => /\ calls'[UploadSlot] = Idle
             /\ upload'.pc = "analysing"
             /\ upload' # upload
                => /\ upload'.files = upload.files - 1
                   /\ \/ upload'.newGalleryImages = upload.newGalleryImages
                      \/ \E image \in GalleryImageRec :
                            /\ image.galleryId = upload.galleryId
                            /\ upload'.newGalleryImages =
                                  Append(upload.newGalleryImages, image)
       /\ upload.pc = "analysing" /\ upload'.pc # "analysing"
          => IF upload.newGalleryImages = <<>>
             THEN upload' = NoUpload /\ calls' = calls
             ELSE /\ upload'.pc = "saving"
                  /\ calls'[UploadSlot].op = "saveImages"
                  /\ calls'[UploadSlot].arg = <<upload.newGalleryImages>>
       /\ upload.pc = "saving"
          => /\ upload'.pc = "saving" => upload' = upload
             /\ calls'[UploadSlot] # Idle => calls'[UploadSlot].arg = calls[UploadSlot].arg
             /\ images' \subseteq images \cup Range(upload.newGalleryImages)]_vars

\* An upload of two files, one of which failed, has stored the image of the
\* other and is about to end.
C19_Witness ==
    /\ upload.pc = "saving"
    /\ upload.total = 2
    /\ Len(upload.newGalleryImages) = 1
    /\ calls[UploadSlot].promise = "resolved"
    /\ Range(upload.newGalleryImages) \subseteq images
\* C20 (failing AI step): a step in which editImage, generateThemedImage or
\* analyzeImage fails issues no storage call and leaves every stored image as
\* it is; a writing call is issued only in the step in which analyzeImage
\* succeeded after the first AI step, and it is saveImage of the record built
\* from both results; the stored images change only by the put of such a
\* call.
C20_FailingAiStepStoresNothing ==
    [][/\ aiFlow.pc # "idle" /\ aiFlow'.error
          => calls' = calls /\ images' = images
       /\ \A c \in Slots :
             (/\ calls[c].pc \in {"idle", "finished"}
              /\ calls'[c].pc \notin {"idle", "finished"}
              /\ calls'[c].op \in WriteOps)
                => /\ aiFlow.pc = "analysing"
                   /\ aiFlow.result \in Contents
                   /\ aiFlow' = NoAiFlow
                   /\ calls'[c].op = "saveImage"
                   /\ \E id \in ImageIds : calls'[c].arg = <<BuiltImage(id)>>
       /\ images' # images
          => \E c \in Slots : /\ calls[c].op = "saveImage"
                              /\ calls[c].pc = "tx"
                              /\ images' = Put(images, calls[c].arg[1])]_vars

\* An edit of the stored image failed at analyzeImage, after editImage had
\* returned an image: no call was made and the image is stored as it was.
C20_Witness ==
    /\ aiFlow.pc = "idle"
    /\ aiFlow.error
    /\ aiFlow.kind = "edit"
    /\ aiFlow.result \in Contents
    /\ aiFlow.image = <<StoredImage>>
    /\ images = {StoredImage}
    /\ \A c \in Slots : calls[c] = Idle
\* C21 (an edit overwrites in place): the step that commits the saveImage of
\* an edit leaves the number of stored images as it was, and every image
\* stored before is still stored under its id in its gallery.
C21_EditOverwritesInPlace ==
    [][\A c \in Slots :
          (/\ calls[c].op = "saveImage"
           /\ calls[c].pc = "tx"
           /\ calls'[c].tx = "committed")
          => /\ Cardinality(images') = Cardinality(images)
             /\ \A r \in images :
                   \E u \in images' : u.id = r.id /\ u.galleryId = r.galleryId]_vars
\* C22 (put inserts or overwrites): after the step that commits a saveImage,
\* the image of the call is the only record stored under its id, every image
\* stored under another id is as before, there is one image more if the id was
\* not stored and as many as before if it was, and the galleries are as
\* before.
C22_PutInsertsOrOverwrites ==
    [][\A c \in Slots :
          (/\ calls[c].op = "saveImage"
           /\ calls[c].pc = "tx"
           /\ calls'[c].tx = "committed")
          => LET image == calls[c].arg[1]
             IN  /\ {r \in images' : r.id = image.id} = {image}
                 /\ {r \in images' : r.id # image.id} = {r \in images : r.id # image.id}
                 /\ Cardinality(images') =
                       Cardinality(images)
                         + (IF \E r \in images : r.id = image.id THEN 0 ELSE 1)
                 /\ galleries' = galleries]_vars

\* The put of a saveImage has run on an id that is stored with another
\* gallery and another timestamp, beside a second image: the transaction's
\* view holds the new record in place of the old one.
C22_Witness ==
    \E c \in Slots :
        /\ calls[c].op = "saveImage"
        /\ calls[c].tx = "active"
        /\ calls[c].reqs = <<>>
        /\ Cardinality(images) = 2
        /\ \E old \in images :
              /\ old.id = calls[c].arg[1].id
              /\ old.galleryId # calls[c].arg[1].galleryId
              /\ old.timestamp # calls[c].arg[1].timestamp
              /\ calls[c].wi = (images \ {old}) \cup {calls[c].arg[1]}
\* C23 (an absent id is no error): a loadGallery of an id that is not stored
\* resolves with null when its request succeeds; the transaction of a
\* deleteImage or a deleteGallery of an id that is not stored commits with
\* the call resolved and both stores as they were; such a call is rejected
\* only when its open request or one of its requests fails.
C23_AbsentIdIsNoError ==
    [][\A c \in Slots :
          /\ (/\ calls[c].op = "loadGallery"
              /\ Get(galleries, calls[c].arg[1]) = {}
              /\ calls[c].promise = "pending"
              /\ calls'[c].promise = "resolved")
             => calls'[c].result = <<>>
          /\ (/\ \/ calls[c].op = "deleteImage" /\ Get(images, calls[c].arg[1]) = {}
                 \/ calls[c].op = "deleteGallery" /\ Get(galleries, calls[c].arg[1]) = {}
              /\ calls[c].pc = "tx"
              /\ calls'[c].tx = "committed")
             => /\ calls'[c].promise = "resolved"
                /\ galleries' = galleries
                /\ images' = images
          /\ (/\ calls[c].op \in {"loadGallery", "deleteImage", "deleteGallery"}
              /\ calls[c].promise = "pending"
              /\ calls'[c].promise = "rejected")
             => \/ calls[c].pc = "opening"
                \/ calls[c].reqs # <<>> /\ calls'[c].tx = "aborted"]_vars
\* C24 (no connection): the step in which the open request of a call fails
\* rejects the call and ends it without a transaction; the stores, the
\* database's schema and the cached connection are as before, and no further
\* open request is made.
C24_OpenFailureRejects ==
    [][\A c \in Slots :
          (calls[c].pc = "opening" /\ calls'[c].promise = "rejected")
          => /\ calls'[c].promise = "rejected"
             /\ calls'[c].pc = "finished"
             /\ calls'[c].tx = "none"
             /\ txQueue' = txQueue
             /\ galleries' = galleries
             /\ images' = images
             /\ schema' = schema
             /\ dbInstance' = dbInstance
             /\ openRequests' = openRequests]_vars

\* The open request of a writing call failed on a database that was never
\* opened: the call is rejected, no connection is cached, no store exists.
C24_Witness ==
    \E c \in Slots :
        /\ calls[c].op \in WriteOps
        /\ calls[c].pc = "finished"
        /\ calls[c].promise = "rejected"
        /\ calls[c].tx = "none"
        /\ dbInstance = "null"
        /\ schema = NoDatabase
\* C25 (names are not empty): every stored gallery has a name that is not
\* empty, whatever the user typed into the name fields of the overview and of
\* the view.
C25_StoredNamesNotEmpty ==
    \A gallery \in galleries : gallery.name # ""

\* A gallery that was created and then renamed in its view is stored.
C25_Witness ==
    \E gallery \in galleries :
        /\ gallery.name = "b"
        /\ calls[TitleSlot].op = "updateGallery"
        /\ calls[TitleSlot].tx = "committed"
\* C26 (generated images belong to the view's gallery): the saveImage issued
\* at the end of a generation carries the id of the gallery in whose view the
\* generation was started, and once its transaction commits the image is in
\* what loadGalleryImages of that gallery returns.
C26_GeneratedImageInViewGallery ==
    [][\A c \in Slots :
          /\ (/\ aiFlow.kind = "generate"
              /\ calls[c].pc \in {"idle", "finished"}
              /\ calls'[c].pc \notin {"idle", "finished"}
              /\ calls'[c].op = "saveImage")
             => /\ aiFlow.galleryId \in GalleryIds
                /\ calls'[c].arg[1].galleryId = aiFlow.galleryId
          /\ (/\ calls[c].op = "saveImage"
              /\ calls[c].pc = "tx"
              /\ calls'[c].tx = "committed")
             => calls[c].arg[1] \in
                   Range(LoadGalleryImagesOf(images', calls[c].arg[1].galleryId))]_vars

\* A generated image is stored in the gallery of the view, beside the image
\* the gallery held.
C26_Witness ==
    /\ StoredImage \in images
    /\ \E image \in images :
          /\ image.id # StoredImage.id
          /\ image.galleryId = StoredGallery.id
          /\ image.base64 \in Contents
\* The view has loaded its images and nothing is running: no handler, no call.
ViewAtRest ==
    /\ selectedGallery # <<>>
    /\ view.load = "done"
    /\ view.handlers = {}
    /\ view.awaiting = {}
    /\ upload.pc = "idle"
    /\ NoCallInFlight

\* C27 (the list of the view refines the store): when the view has loaded and
\* every handler has completed, its list is what loadGalleryImages of its
\* gallery returns, records and order; stated for lists whose images differ
\* in id and in timestamp, as those of Math.random and Date.now() do.
C27_ViewListRefinesStore ==
    (/\ ViewAtRest
     /\ \A i, j \in DOMAIN view.images :
           i # j => /\ view.images[i].id # view.images[j].id
                    /\ view.images[i].timestamp # view.images[j].timestamp)
    => view.images = LoadGalleryImagesOf(images, selectedGallery[1].id)

\* C28 (an upload leaves the uploading state): whenever no upload handler of
\* the view is running, uploadProgress is null.
C28_UploadProgressReset ==
    "upload" \notin view.handlers => view.uploadProgress = "null"
\* C30 (deletions touch nothing else): while deleteGallery(G) runs, every
\* gallery other than G and every image of another gallery stays as it is;
\* while deleteImage(id) runs, every gallery and every other image stays as
\* it is.
C30_DeletionsLeaveTheRest ==
    [][\A c \in Slots :
          /\ (calls[c].op = "deleteGallery" /\ calls[c].pc \in {"opened", "tx"}) =>
                LET G == calls[c].arg[1]
                IN  /\ {g \in galleries' : g.id # G} = {g \in galleries : g.id # G}
                    /\ {i \in images' : i.galleryId # G}
                         = {i \in images : i.galleryId # G}
          /\ (calls[c].op = "deleteImage" /\ calls[c].pc \in {"opened", "tx"}) =>
                LET id == calls[c].arg[1]
                IN  /\ galleries' = galleries
                    /\ {i \in images' : i.id # id} = {i \in images : i.id # id}]_vars

\* A deleteGallery has committed, and another gallery and an image of another
\* gallery are stored.
C30_Witness ==
    \E c \in Slots :
        /\ calls[c].op = "deleteGallery"
        /\ calls[c].tx = "committed"
        /\ \A g \in galleries : g.id # calls[c].arg[1]
        /\ \A i \in images : i.galleryId # calls[c].arg[1]
        /\ galleries # {}
        /\ images # {}
\* C29 (a card's cover goes with its count): on every card loadGalleries
\* hands to setGalleries, coverImage is non-null exactly when imageCount > 0.
C29_CoverIffCount ==
    \A card \in Range(overview.galleriesWithMeta) :
        (card.coverImage # <<>>) <=> (card.imageCount > 0)
====
